---- MODULE Spec2Model ----
(***************************************************************************)
(* A model of the tutorials of the imitation repository:                   *)
(*   - ObservationMatchingEnv, the environment class defined in            *)
(*     docs/tutorials/10_train_custom_env.ipynb, and the wrappers the      *)
(*     tutorial puts around it (TimeLimit, RolloutInfoWrapper);            *)
(*   - the code cells of the custom-environment, SQIL and AIRL tutorials   *)
(*     and of the AIRL documentation example, executed top to bottom.      *)
(*                                                                         *)
(* Real numbers in [0, 1] are modelled on a grid: the integer k stands for *)
(* k / Grid.  A reward is kept as the numerator of a fraction whose        *)
(* denominator is Grid * num_options.                                      *)
(***************************************************************************)
EXTENDS Integers, Sequences, FiniteSets, TLC

(* ------------------------------ bounds --------------------------------- *)

\* Resolution of the unit interval: a component is one of 0/Grid .. Grid/Grid.
Grid == 3

\* Seeds a caller may pass to seed(), and seeds the entropy source may give.
MaxSeed == 2

\* Period of the modelled pseudo-random generator.
Period == 3

\* Largest num_options an ObservationMatchingEnv is constructed with.
MaxOptions == 2

\* Cells the user runs one by one in a kernel.
MaxRuns == 4

(* ------------------------- program constants --------------------------- *)

\* def __init__(self, num_options: int = 2)
DefaultNumOptions == 2

\* max_episode_steps=500, in gym.register and in both TimeLimit(...) calls
MaxEpisodeSteps == 500

\* n_envs=4 / range(4)
NumEnvs == 4

\* rollout.make_sample_until(min_timesteps=None, min_episodes=50)
MinEpisodes == 50

(* ---------------------------- arithmetic ------------------------------- *)

Abs(x) == IF x < 0 THEN -x ELSE x

RECURSIVE SumSeq(_)
SumSeq(s) == IF s = <<>> THEN 0 ELSE Head(s) + SumSeq(Tail(s))

(* ------------------- ObservationMatchingEnv: the class ----------------- *)

Seeds == 0..MaxSeed

\* A Box(low, high, shape=(n,), dtype): bounds in grid units.
Box(low, high, n, dtype) ==
    [low |-> low * Grid, high |-> high * Grid, shape |-> n, dtype |-> dtype]

\* self.observation_space = Box(0, 1, shape=(num_options,), dtype=np.float32)
ObservationSpace(n) == Box(0, 1, n, "float32")

\* self.action_space = Box(0, 1, shape=(num_options,), dtype=np.float32)
ActionSpace(n) == Box(0, 1, n, "float32")

\* The arrays of a Box space: an array carries its shape, its element type
\* and its components.
Array(dtype, vals) == [shape |-> Len(vals), dtype |-> dtype, vals |-> vals]

NoArray == Array("none", <<>>)

\* x in space: gym's Box.contains compares the element type, the shape and
\* the bounds.
Contains(space, x) ==
    /\ x.dtype = space.dtype
    /\ x.shape = space.shape
    /\ \A i \in 1..Len(x.vals) : space.low <= x.vals[i] /\ x.vals[i] <= space.high

\* The actions of the action space with num_options = n.
Actions(n) == {Array("float32", v) : v \in [1..n -> 0..Grid]}

\* seeding.np_random(seed): a generator is its seed and its position in the
\* stream; the k-th number of the stream of a seed is fixed by the seed.
NpRandom(seed) == [seed |-> seed, pos |-> 0]

\* The k-th number of the stream of `seed`, uniform over [0, 1): one of
\* 0/Grid .. (Grid-1)/Grid.
Gen(seed, k) == (seed + k + (k * k) \div 2) % Grid

\* np_random.uniform(size=n): n numbers of the stream, as a float64 array.
Uniform(rng, n) ==
    Array("float64", [i \in 1..n |-> Gen(rng.seed, (rng.pos + i - 1) % Period)])

\* the generator after uniform(size=n)
RngAdvance(rng, n) == [rng EXCEPT !.pos = (rng.pos + n) % Period]

\* -np.abs(self.state - action).mean(), as the numerator over Grid * n
RewardOf(state, action) ==
    - SumSeq([i \in 1..Len(state.vals) |-> Abs(state.vals[i] - action.vals[i])])

\* Variant: a constructor that also draws the first state.
OMEInitWithState(n, seed) ==
    [num_options |-> n, np_random |-> RngAdvance(NpRandom(seed), n),
     state |-> Uniform(NpRandom(seed), n)]

\* The fields of an ObservationMatchingEnv after __init__(num_options) whose
\* self.seed() drew `seed` from the entropy source: `state` is not set.
OMEInit(n, seed) ==
    [num_options |-> n, np_random |-> NpRandom(seed), state |-> NoArray]

\* seed(seed): self.np_random, seed = seeding.np_random(seed)
OMESeed(o, seed) == [o EXCEPT !.np_random = NpRandom(seed)]

\* reset(): self.state = self.np_random.uniform(size=self.num_options)
OMEReset(o) ==
    [o EXCEPT !.state = Uniform(o.np_random, o.num_options),
              !.np_random = RngAdvance(o.np_random, o.num_options)]

\* Variant: the reward computed after self.state is redrawn.
OMEStepRewardNew(o, action) ==
    RewardOf(Uniform(o.np_random, o.num_options), action)

\* step(action), the reward: computed from self.state before it is redrawn
OMEStepReward(o, action) == RewardOf(o.state, action)

\* Variant: a step whose next state is the action it was passed.
OMEStepLeaks(o, action) ==
    [o EXCEPT !.state = Array("float64", action.vals),
              !.np_random = RngAdvance(o.np_random, o.num_options)]

\* step(action), the fields afterwards: self.state is drawn anew
OMEStep(o, action) ==
    [o EXCEPT !.state = Uniform(o.np_random, o.num_options),
              !.np_random = RngAdvance(o.np_random, o.num_options)]

\* step(action), the done flag: the literal False of the return statement
OMEStepDone == FALSE

(* ------------------------ the wrappers of Step 2 ----------------------- *)

\* An environment as the tutorial builds it: the class at the bottom, its
\* num_options, the step limit of a TimeLimit wrapper around it (0: no
\* TimeLimit) and whether a RolloutInfoWrapper is around that.
EnvCfg(base, opts, limit, info) ==
    [base |-> base, opts |-> opts, limit |-> limit, info |-> info]

NoEnv == EnvCfg("", 0, 0, FALSE)

\* ObservationMatchingEnv(): the class instantiated with its default argument
NewOME == EnvCfg("ObservationMatchingEnv", DefaultNumOptions, 0, FALSE)

\* TimeLimit(env, max_episode_steps=n)
TimeLimit(env, n) == [env EXCEPT !.limit = n]

\* RolloutInfoWrapper(env)
RolloutInfoWrapper(env) == [env EXCEPT !.info = TRUE]

\* TimeLimit.reset: the step counter starts again
TimeLimitReset(e) == 0

\* TimeLimit.step: the step counter after the step
TimeLimitElapsed(e) == e + 1

\* Variant: done only once the counter has passed the limit.
TimeLimitDoneLate(c, e, done) == done \/ (c.limit > 0 /\ e > c.limit)

\* TimeLimit.step: done once the counter has reached the limit
TimeLimitDone(c, e, done) == done \/ (c.limit > 0 /\ e >= c.limit)

(* ----------------------- the environment's state ----------------------- *)

VARIABLES
    cfg,        \* the wrappers around the environment in use (an EnvCfg)
    om,         \* the fields of the ObservationMatchingEnv object
    elapsed,    \* TimeLimit._elapsed_steps (-1: None, before the first reset)
    call,       \* the last call made on the environment
    ret,        \* what that call returned
    lastObs,    \* the observation most recently returned by reset or step
    epSteps     \* steps taken since the last reset of an environment that is
                \* run in episodes (one under a wrapper)

envVars == <<cfg, om, elapsed, call, ret, lastObs, epSteps>>

\* A call: seed = -1 stands for None; `seen` is the observation the caller
\* holds when it makes the call, the one reset or step returned last.
Call(op, action, seed, seen) ==
    [op |-> op, action |-> action, seed |-> seed, seen |-> seen]

Ret(kind, obs, reward, done, seed) ==
    [kind |-> kind, obs |-> obs, reward |-> reward, done |-> done, seed |-> seed]

NoRet == Ret("none", NoArray, 0, FALSE, -1)

\* An environment that is run in episodes: one under a wrapper of Step 2.
Wrapped(c) == c.limit > 0 \/ c.info

\* The state after construction of an environment `c` whose class drew
\* `seed` in its constructor.
EnvInit(c, seed) ==
    /\ cfg = c
    /\ om = OMEInit(c.opts, seed)
    /\ elapsed = -1
    /\ call = Call("init", NoArray, -1, NoArray)
    /\ ret = NoRet
    /\ lastObs = NoArray
    /\ epSteps = 0

\* env.seed(arg): arg = -1 is seed(None), which draws the seed from the
\* entropy source; the wrappers pass the call through.
Seed(arg) ==
    \E s \in Seeds :
        /\ arg # -1 => s = arg
        /\ om' = OMESeed(om, s)
        /\ call' = Call("seed", NoArray, arg, lastObs)
        /\ ret' = Ret("seed", NoArray, 0, FALSE, s)
        /\ UNCHANGED <<cfg, elapsed, lastObs, epSteps>>

\* env.reset()
Reset ==
    /\ om' = OMEReset(om)
    /\ elapsed' = IF cfg.limit > 0 THEN TimeLimitReset(elapsed) ELSE elapsed
    /\ call' = Call("reset", NoArray, -1, lastObs)
    /\ ret' = Ret("obs", om'.state, 0, FALSE, -1)
    /\ lastObs' = om'.state
    /\ epSteps' = 0
    /\ UNCHANGED cfg

\* env.step(action).  Before the first reset the object has no `state` and
\* the call raises; otherwise the class computes the reward and draws the
\* next state, and a TimeLimit around it counts the step.
Step(action) ==
    /\ epSteps <= MaxEpisodeSteps
    /\ call' = Call("step", action, -1, lastObs)
    /\ IF om.state = NoArray
       THEN /\ ret' = Ret("error", NoArray, 0, FALSE, -1)
            /\ UNCHANGED <<cfg, om, elapsed, lastObs, epSteps>>
       ELSE /\ om' = OMEStep(om, action)
            /\ elapsed' = IF cfg.limit > 0 THEN TimeLimitElapsed(elapsed) ELSE elapsed
            /\ ret' = Ret("step", om'.state, OMEStepReward(om, action),
                          TimeLimitDone(cfg, elapsed', OMEStepDone), -1)
            /\ lastObs' = om'.state
            /\ epSteps' = IF Wrapped(cfg) THEN epSteps + 1 ELSE epSteps
            /\ UNCHANGED cfg

(* ------------------- a second environment, in step -------------------- *)

\* A second ObservationMatchingEnv object, on which the caller makes the
\* same calls as on the first, with actions of its own.
VARIABLES
    om2,        \* the fields of the second object
    call2,      \* the last call made on it
    ret2,       \* what that call returned
    lastObs2,   \* the observation it returned last
    sameSeed    \* whether the last seeding gave both generators the same seed

pairVars == <<om2, call2, ret2, lastObs2, sameSeed>>

\* No second object: the variables rest.
PairIdle ==
    /\ om2 = OMEInit(0, 0)
    /\ call2 = Call("init", NoArray, -1, NoArray)
    /\ ret2 = NoRet
    /\ lastObs2 = NoArray
    /\ sameSeed = FALSE

\* seed(arg) on the second object
Seed2(arg) ==
    \E s \in Seeds :
        /\ arg # -1 => s = arg
        /\ om2' = OMESeed(om2, s)
        /\ call2' = Call("seed", NoArray, arg, lastObs2)
        /\ ret2' = Ret("seed", NoArray, 0, FALSE, s)
        /\ UNCHANGED lastObs2

\* reset() on the second object
Reset2 ==
    /\ om2' = OMEReset(om2)
    /\ call2' = Call("reset", NoArray, -1, lastObs2)
    /\ ret2' = Ret("obs", om2'.state, 0, FALSE, -1)
    /\ lastObs2' = om2'.state

\* step(action) on the second object
Step2(action) ==
    /\ call2' = Call("step", action, -1, lastObs2)
    /\ IF om2.state = NoArray
       THEN /\ ret2' = Ret("error", NoArray, 0, FALSE, -1)
            /\ UNCHANGED <<om2, lastObs2>>
       ELSE /\ om2' = OMEStep(om2, action)
            /\ ret2' = Ret("step", om2'.state, OMEStepReward(om2, action),
                           OMEStepDone, -1)
            /\ lastObs2' = om2'.state

\* Both objects are seeded with the same argument; seed(None) draws a seed
\* for each from the entropy source.
PairSeed(arg) ==
    /\ Seed(arg)
    /\ Seed2(arg)
    /\ sameSeed' = (ret'.seed = ret2'.seed)

\* Both objects are reset.
PairReset ==
    /\ Reset
    /\ Reset2
    /\ UNCHANGED sameSeed

\* Both objects are stepped, each with an action of its own.
PairStep(a, b) ==
    /\ Step(a)
    /\ Step2(b)
    /\ UNCHANGED sameSeed

(* ------------------------- notebook statements ------------------------- *)

\* An environment id "<ns>/<name>-v<ver>" (ns = "": no namespace).
EnvId(ns, name, ver) == [ns |-> ns, name |-> name, ver |-> ver]

NoId == EnvId("", "", -1)

\* A read of a name: the role the value plays in the statement, and the name.
Rd(role, name) == <<role, name>>

\* Reads whose role is the name itself (modules, classes, functions).
Names(names) == {Rd(n, n) : n \in names}

\* One statement of a code cell:
\*   op     the function called or the kind of statement
\*   binds  the names it binds when it completes
\*   reads  the names it reads
\*   stage  the step of the pipeline it carries out ("none": none)
\*   ext    whether it calls into an external library, which may raise
\*   envid  the environment id it names, num its main integer argument,
\*   kw     its other literal arguments
\*   try    whether it stands in a try block whose handler catches its
\*          exception
Stmt(op, binds, reads, stage, ext, envid, num, kw) ==
    [op |-> op, binds |-> binds, reads |-> reads, stage |-> stage, ext |-> ext,
     envid |-> envid, num |-> num, kw |-> kw, try |-> FALSE]

Import(names) == Stmt("import", names, {}, "none", FALSE, NoId, 0, {})

PrintStmt(reads, text) ==
    Stmt("print", {}, Names(reads), "none", FALSE, NoId, 0, {<<"text", text>>})

\* A code cell: its name and its statements in order.
Cell(name, stmts) == [name |-> name, stmts |-> stmts]

(* ---------------- 10_train_custom_env.ipynb: the cells ----------------- *)

CustomId == EnvId("custom", "ObservationMatching", 0)

\* Step 1: the imports and the class statement
CustomStep1 ==
    Cell("step1", <<
        Import({"np", "gym", "Box", "seeding"}),
        Stmt("class", {"ObservationMatchingEnv"}, Names({"gym"}), "none", FALSE,
             NoId, DefaultNumOptions, {})
    >>)

\* Step 2a, first cell: gym.register(id=..., entry_point=..., max_episode_steps=500)
CustomStep2aRegister ==
    Cell("step2a_register", <<
        Stmt("gym.register", {}, Names({"gym", "ObservationMatchingEnv"}), "none",
             TRUE, CustomId, MaxEpisodeSteps, {})
    >>)

\* Step 2a, second cell: env = gym.make(...); venv = make_vec_env(...) (Option A)
CustomStep2aStmts == <<
        Import({"TimeLimit", "rollout", "RolloutInfoWrapper", "make_vec_env",
                "DummyVecEnv", "SubprocVecEnv"}),
        Stmt("gym.make", {"env"}, Names({"gym"}), "env", TRUE, CustomId, 0, {}),
        Stmt("make_vec_env", {"venv"},
             Names({"make_vec_env", "np", "RolloutInfoWrapper"}), "env", TRUE,
             CustomId, NumEnvs, {<<"post_wrappers", "RolloutInfoWrapper">>})
    >>

\* Variant: a Step 2a cell that makes the single environment and does not
\* bind it to `env`.
CustomStep2aKeepsEnv ==
    Cell("step2a",
         [CustomStep2aStmts EXCEPT
             ![2] = Stmt("gym.make", {}, Names({"gym"}), "env", TRUE, CustomId,
                         0, {})])

CustomStep2a == Cell("step2a", CustomStep2aStmts)

\* Step 2b: env = TimeLimit(ObservationMatchingEnv(), 500); def _make_env;
\* venv = DummyVecEnv([_make_env for _ in range(4)]) (Option A)
CustomStep2bStmts == <<
        Import({"TimeLimit", "rollout", "RolloutInfoWrapper", "DummyVecEnv", "np"}),
        Stmt("ObservationMatchingEnv", {"env"}, Names({"ObservationMatchingEnv"}),
             "env", TRUE, NoId, 0, {}),
        Stmt("TimeLimit", {"env"}, Names({"TimeLimit"}) \cup {Rd("env", "env")},
             "env", TRUE, NoId, MaxEpisodeSteps, {}),
        Stmt("def", {"_make_env"}, {}, "none", FALSE, NoId, 0, {}),
        Stmt("DummyVecEnv", {"venv"},
             Names({"DummyVecEnv", "ObservationMatchingEnv", "TimeLimit",
                    "RolloutInfoWrapper"}) \cup {Rd("factory", "_make_env")},
             "env", TRUE, NoId, NumEnvs, {})
    >>

\* Variant: a Step 2b cell that does not import `rollout`.
CustomStep2bNoRollout ==
    Cell("step2b",
         [CustomStep2bStmts EXCEPT
             ![1] = Import({"TimeLimit", "RolloutInfoWrapper", "DummyVecEnv", "np"})])

CustomStep2b == Cell("step2b", CustomStep2bStmts)

\* Step 3, first cell: the expert is constructed, evaluated, trained, evaluated
CustomExpertStmts == <<
        Import({"PPO", "MlpPolicy", "evaluate_policy", "TimeLimit"}),
        Stmt("PPO", {"expert"}, Names({"PPO", "MlpPolicy"}) \cup {Rd("env", "env")},
             "expert", TRUE, NoId, 0,
             {<<"seed", "0">>, <<"batch_size", "64">>, <<"ent_coef", "0.0">>,
              <<"learning_rate", "0.0003">>, <<"n_epochs", "10">>,
              <<"n_steps", "64">>}),
        Stmt("evaluate_policy", {"reward", "_"},
             Names({"evaluate_policy"}) \cup {Rd("policy", "expert"), Rd("env", "env")},
             "eval", TRUE, NoId, 10, {}),
        PrintStmt({"reward"}, "Reward before training"),
        Stmt("learn", {}, {Rd("trainer", "expert")}, "expert", TRUE, NoId, 10000, {}),
        Stmt("evaluate_policy", {"reward", "_"},
             Names({"evaluate_policy"}) \cup {Rd("policy", "expert"), Rd("env", "env")},
             "eval", TRUE, NoId, 10, {}),
        PrintStmt({"reward"}, "Expert reward")
    >>

\* Variant: the expert cell with every statement in a try block.
CustomExpertTry ==
    Cell("expert", [i \in 1..Len(CustomExpertStmts) |->
                        [CustomExpertStmts[i] EXCEPT !.try = TRUE]])

CustomExpert == Cell("expert", CustomExpertStmts)

\* Step 3, second cell: rollouts of the expert in venv, flattened
CustomRollout ==
    Cell("rollout", <<
        Stmt("np.random.default_rng", {"rng"}, Names({"np"}), "none", TRUE, NoId, 0, {}),
        Stmt("rollout.rollout", {"rollouts"},
             Names({"rollout"}) \cup
                 {Rd("policy", "expert"), Rd("env", "venv"), Rd("rng", "rng")},
             "demos", TRUE, NoId, MinEpisodes, {<<"min_timesteps", "None">>}),
        Stmt("rollout.flatten_trajectories", {"transitions"},
             Names({"rollout"}) \cup {Rd("demos", "rollouts")}, "demos", TRUE,
             NoId, 0, {})
    >>)

\* Step 3, third cell: bc_trainer = bc.BC(...)
CustomBC ==
    Cell("bc", <<
        Import({"bc"}),
        Stmt("bc.BC", {"bc_trainer"},
             Names({"bc"}) \cup
                 {Rd("env", "env"), Rd("demos", "transitions"), Rd("rng", "rng")},
             "learner", TRUE, NoId, 0, {})
    >>)

\* Step 3, fourth cell: the untrained policy is evaluated
CustomEvalBefore ==
    Cell("eval_before", <<
        Stmt("evaluate_policy", {"reward_before_training", "_"},
             Names({"evaluate_policy"}) \cup
                 {Rd("policy", "bc_trainer"), Rd("env", "env")},
             "eval", TRUE, NoId, 10, {}),
        PrintStmt({"reward_before_training"}, "Reward before training")
    >>)

\* Step 3, last cell: bc_trainer.train(n_epochs=1), then the evaluation
CustomTrainStmts == <<
        Stmt("train", {}, {Rd("trainer", "bc_trainer")}, "train", TRUE, NoId, 1, {}),
        Stmt("evaluate_policy", {"reward_after_training", "_"},
             Names({"evaluate_policy"}) \cup
                 {Rd("policy", "bc_trainer"), Rd("env", "env")},
             "eval", TRUE, NoId, 10, {}),
        PrintStmt({"reward_after_training"}, "Reward after training")
    >>

\* Variant: the last cell with the evaluation before the train call.
CustomTrainSwapped ==
    Cell("train", <<CustomTrainStmts[2], CustomTrainStmts[1], CustomTrainStmts[3]>>)

CustomTrain == Cell("train", CustomTrainStmts)

\* The cells of Step 3 in document order.
CustomStep3 ==
    <<CustomExpert, CustomRollout, CustomBC, CustomEvalBefore, CustomTrain>>

(* -------------------- 8_train_sqil.ipynb: the cells -------------------- *)

\* A name on the HuggingFace hub, "<org>/<algo>-<env>": the environment id is
\* written into it with "-" for "/".
HubName(org, algo, env) == [org |-> org, algo |-> algo, env |-> env]

\* The environment a hub name names.
HubEnv(h) == h.env

\* The environment the text of the SQIL tutorial names: "expert trajectories
\* in our environment (`seals/CartPole-v0`)"
SqilTextEnvId == EnvId("seals", "CartPole", 0)

\* datasets.load_dataset("HumanCompatibleAI/ppo-CartPole-v1")
SqilDataset == HubName("HumanCompatibleAI", "ppo", EnvId("", "CartPole", 1))

\* gym.make("CartPole-v1")
SqilEnvId == EnvId("", "CartPole", 1)

SqilLoad ==
    Cell("load", <<
        Import({"datasets", "DummyVecEnv", "huggingface_utils"}),
        Stmt("datasets.load_dataset", {"dataset"}, Names({"datasets"}), "expert",
             TRUE, HubEnv(SqilDataset), 0, {}),
        Stmt("TrajectoryDatasetSequence", {"expert_trajectories"},
             Names({"huggingface_utils"}) \cup {Rd("dataset", "dataset")}, "demos",
             TRUE, NoId, 0, {})
    >>)

SqilStats ==
    Cell("stats", <<
        Import({"rollout"}),
        Stmt("rollout.rollout_stats", {"trajectory_stats"},
             Names({"rollout"}) \cup {Rd("demos", "expert_trajectories")}, "none",
             TRUE, NoId, 0, {}),
        PrintStmt({"trajectory_stats"}, "We have n_traj trajectories")
    >>)

SqilTrainer ==
    Cell("trainer", <<
        Import({"sqil", "gym"}),
        Stmt("DummyVecEnv(gym.make)", {"venv"}, Names({"DummyVecEnv", "gym"}), "env",
             TRUE, SqilEnvId, 1, {}),
        Stmt("sqil.SQIL", {"sqil_trainer"},
             Names({"sqil"}) \cup
                 {Rd("env", "venv"), Rd("demos", "expert_trajectories")},
             "learner", TRUE, NoId, 0, {<<"policy", "MlpPolicy">>})
    >>)

SqilEvalBefore ==
    Cell("eval_before", <<
        Import({"evaluate_policy"}),
        Stmt("evaluate_policy", {"reward_before_training", "_"},
             Names({"evaluate_policy"}) \cup
                 {Rd("policy", "sqil_trainer"), Rd("env", "venv")},
             "eval", TRUE, NoId, 10, {}),
        PrintStmt({"reward_before_training"}, "Reward before training")
    >>)

SqilTrain ==
    Cell("train", <<
        Stmt("train", {}, {Rd("trainer", "sqil_trainer")}, "train", TRUE, NoId,
             1000, {}),
        Stmt("evaluate_policy", {"reward_after_training", "_"},
             Names({"evaluate_policy"}) \cup
                 {Rd("policy", "sqil_trainer"), Rd("env", "venv")},
             "eval", TRUE, NoId, 10, {}),
        PrintStmt({"reward_after_training"}, "Reward after training")
    >>)

(* ------------- the AIRL tutorial and the AIRL doc example -------------- *)

SealsCartPole == EnvId("seals", "CartPole", 0)

\* SEED = 42
SEED == 42

\* load_policy("ppo-huggingface", organization="HumanCompatibleAI",
\*             env_name="seals-CartPole-v0", venv=env)
AirlExpert == HubName("HumanCompatibleAI", "ppo", SealsCartPole)

\* SEED = 42; env = make_vec_env("seals/CartPole-v0", ..., n_envs=8, ...);
\* expert = load_policy(...)
AirlEnvStmts == <<
    Stmt("const", {"SEED"}, {}, "none", FALSE, NoId, SEED, {}),
    Stmt("make_vec_env", {"env"},
         Names({"make_vec_env", "np", "RolloutInfoWrapper"}) \cup {Rd("seed", "SEED")},
         "env", TRUE, SealsCartPole, 8, {<<"post_wrappers", "RolloutInfoWrapper">>}),
    Stmt("load_policy", {"expert"}, Names({"load_policy"}) \cup {Rd("env", "env")},
         "expert", TRUE, HubEnv(AirlExpert), 0, {<<"policy_type", "ppo-huggingface">>})
>>

\* rollouts = rollout.rollout(expert, env, make_sample_until(min_episodes=60), rng)
AirlRolloutStmt(kw) ==
    Stmt("rollout.rollout", {"rollouts"},
         Names({"rollout", "np"}) \cup
             {Rd("policy", "expert"), Rd("env", "env"), Rd("seed", "SEED")},
         "demos", TRUE, NoId, 60, kw)

\* learner = PPO(...); reward_net = BasicShapedRewardNet(...);
\* airl_trainer = AIRL(...)
AirlSetupStmts(ppoKw) == <<
    Stmt("PPO", {"learner"},
         Names({"PPO", "MlpPolicy"}) \cup {Rd("env", "env"), Rd("seed", "SEED")},
         "learner", TRUE, NoId, 0,
         ppoKw \cup {<<"batch_size", "16">>, <<"learning_rate", "0.0001">>,
                     <<"n_epochs", "2">>}),
    Stmt("BasicShapedRewardNet", {"reward_net"},
         Names({"BasicShapedRewardNet", "RunningNorm"}) \cup {Rd("env", "env")},
         "learner", TRUE, NoId, 0, {<<"normalize_input_layer", "RunningNorm">>}),
    Stmt("AIRL", {"airl_trainer"},
         Names({"AIRL"}) \cup
             {Rd("demos", "rollouts"), Rd("env", "env"), Rd("gen_algo", "learner"),
              Rd("reward_net", "reward_net")},
         "learner", TRUE, NoId, 0,
         {<<"demo_batch_size", "1024">>, <<"gen_replay_buffer_capacity", "2048">>,
          <<"n_disc_updates_per_round", "4">>})
>>

\* env.seed(SEED)
AirlSeedStmt ==
    Stmt("seed", {}, {Rd("env", "env"), Rd("seed", "SEED")}, "none", TRUE, NoId, 0, {})

\* <target>, _ = evaluate_policy(learner, env, 100, return_episode_rewards=True)
AirlEvalStmt(target) ==
    Stmt("evaluate_policy", {target, "_"},
         Names({"evaluate_policy"}) \cup {Rd("policy", "learner"), Rd("env", "env")},
         "eval", TRUE, NoId, 100, {<<"return_episode_rewards", "True">>})

\* airl_trainer.train(20000)
AirlTrainStmt ==
    Stmt("train", {}, {Rd("trainer", "airl_trainer")}, "train", TRUE, NoId, 20000, {})

\* Variant: the second evaluation without the reseed before it.
AirlTrainStmtsNoReseed == <<
    AirlSeedStmt,
    AirlEvalStmt("learner_rewards_before_training"),
    AirlTrainStmt,
    AirlEvalStmt("learner_rewards_after_training")
>>

\* env.seed(SEED); evaluate; airl_trainer.train(20000); env.seed(SEED); evaluate
AirlTrainStmts == <<
    AirlSeedStmt,
    AirlEvalStmt("learner_rewards_before_training"),
    AirlTrainStmt,
    AirlSeedStmt,
    AirlEvalStmt("learner_rewards_after_training")
>>

AirlPrintStmts == <<
    PrintStmt({"np", "learner_rewards_after_training"}, "mean reward after training"),
    PrintStmt({"np", "learner_rewards_before_training"}, "mean reward before training")
>>

\* The tutorial notebook, first cell
AirlNbEnv ==
    Cell("env", <<Import({"np", "seals", "load_policy", "make_vec_env",
                          "RolloutInfoWrapper"})>> \o AirlEnvStmts)

\* Variant: a notebook whose rollouts stop after 50 episodes.
AirlNbRolloutShort ==
    Cell("rollout", <<Import({"rollout"}),
                      [AirlRolloutStmt({<<"min_timesteps", "None">>})
                           EXCEPT !.num = 50]>>)

\* The tutorial notebook, second cell
AirlNbRollout ==
    Cell("rollout", <<Import({"rollout"}),
                      AirlRolloutStmt({<<"min_timesteps", "None">>})>>)

\* The tutorial notebook, third cell
AirlNbTrain ==
    Cell("train", <<Import({"AIRL", "BasicShapedRewardNet", "RunningNorm", "PPO",
                            "MlpPolicy", "evaluate_policy"})>>
                  \o AirlSetupStmts({<<"ent_coef", "0.0">>}) \o AirlTrainStmts)

\* The tutorial notebook, last cell
AirlNbPlot ==
    Cell("plot", <<Import({"plt"})>> \o AirlPrintStmts \o <<
        Stmt("plt.hist", {},
             Names({"plt", "learner_rewards_before_training",
                    "learner_rewards_after_training"}), "none", TRUE, NoId, 0, {}),
        Stmt("plt.legend", {}, Names({"plt"}), "none", TRUE, NoId, 0, {}),
        Stmt("plt.show", {}, Names({"plt"}), "none", TRUE, NoId, 0, {})
    >>)

\* The testcode block of the documentation page
AirlDoc ==
    Cell("testcode",
         <<Import({"np", "seals", "PPO", "evaluate_policy", "MlpPolicy", "AIRL",
                   "rollout", "RolloutInfoWrapper", "load_policy",
                   "BasicShapedRewardNet", "RunningNorm", "make_vec_env"})>>
         \o AirlEnvStmts \o <<AirlRolloutStmt({})>> \o AirlSetupStmts({})
         \o AirlTrainStmts \o AirlPrintStmts)

(* ----------------------------- documents ------------------------------- *)

\* The runs: the custom-environment tutorial through Step 2a or through
\* Step 2b, the SQIL tutorial, the AIRL tutorial, the AIRL doc example.
Docs == {"custom2a", "custom2b", "sqil", "airl_nb", "airl_doc"}

CustomDocs == {"custom2a", "custom2b"}

AirlDocs == {"airl_nb", "airl_doc"}

\* The code cells of a run, in document order.
Cells(d) ==
    CASE d = "custom2a" ->
            <<CustomStep1, CustomStep2aRegister, CustomStep2a>> \o CustomStep3
      [] d = "custom2b" -> <<CustomStep1, CustomStep2b>> \o CustomStep3
      [] d = "sqil" -> <<SqilLoad, SqilStats, SqilTrainer, SqilEvalBefore, SqilTrain>>
      [] d = "airl_nb" -> <<AirlNbEnv, AirlNbRollout, AirlNbTrain, AirlNbPlot>>
      [] d = "airl_doc" -> <<AirlDoc>>
      [] d = "custom_cells" ->
            <<CustomStep1, CustomStep2aRegister, CustomStep2a, CustomStep2b>>

(* ------------------ the gym registry and the builders ------------------ *)

\* A registered environment: its id, its entry point (a class), the
\* num_options the class is constructed with, and max_episode_steps
\* (0: none).
EnvSpec(id, entry, opts, limit) ==
    [id |-> id, entry |-> entry, opts |-> opts, limit |-> limit]

\* What gym registers by itself, as far as the tutorials use it.
BuiltinRegistry == {EnvSpec(EnvId("", "CartPole", 1), "CartPoleEnv", 0, 500)}

\* import seals: "needed to load "seals/" environments"
SealsRegistry == {EnvSpec(SealsCartPole, "seals.CartPoleEnv", 0, 500)}

\* gym.register(id=..., entry_point=..., max_episode_steps=...)
Register(reg, id, entry, opts, limit) ==
    {r \in reg : r.id # id} \cup {EnvSpec(id, entry, opts, limit)}

Registered(reg, id) == \E r \in reg : r.id = id

\* gym.make(id): the entry point is called, and gym.make "automatically
\* handles the TimeLimit wrapper".
GymMake(reg, id) ==
    LET spec == CHOOSE r \in reg : r.id = id
        e == EnvCfg(spec.entry, spec.opts, 0, FALSE)
    IN  IF spec.limit > 0 THEN TimeLimit(e, spec.limit) ELSE e

\* make_vec_env(id, n_envs=n, post_wrappers=[lambda env, _: RolloutInfoWrapper(env)])
MakeVecEnv(reg, id, n) == [i \in 1..n |-> RolloutInfoWrapper(GymMake(reg, id))]

\* DummyVecEnv([f for _ in range(n)]) / SubprocVecEnv([...]): every
\* sub-environment is what the factory returns
VecEnvOf(made, n) == [i \in 1..n |-> made]

\* Variant: a _make_env that leaves out the TimeLimit.
MakeEnv2bUnlimited == RolloutInfoWrapper(NewOME)

\* Step 2b, _make_env(): the environment it returns
MakeEnv2b == RolloutInfoWrapper(TimeLimit(NewOME, MaxEpisodeSteps))

\* Step 2a, Options B1 and B2, _make_env(): the environment it returns
MakeEnv2aB(reg) == RolloutInfoWrapper(GymMake(reg, CustomId))

\* Step 2b, Option C: lambda: RolloutInfoWrapper(ObservationMatchingEnv())
MakeEnv2bC == RolloutInfoWrapper(NewOME)

\* The registry once the registration cell of Step 2a has run.
RegistryAfter2a ==
    Register(BuiltinRegistry, CustomId, "ObservationMatchingEnv",
             DefaultNumOptions, MaxEpisodeSteps)

\* The ways of building `venv` the tutorial executes ...
ExecutedOptions == {"2a-A", "2b-A"}

\* ... and the ones it gives in comments.
CommentedOptions == {"2a-B1", "2a-B2", "2b-C"}

VenvOptions == ExecutedOptions \cup CommentedOptions

\* `venv` as each option builds it: the sequence of its sub-environments.
VenvOption(opt) ==
    CASE opt = "2a-A" -> MakeVecEnv(RegistryAfter2a, CustomId, NumEnvs)
      [] opt = "2a-B1" -> VecEnvOf(MakeEnv2aB(RegistryAfter2a), NumEnvs)
      [] opt = "2a-B2" -> VecEnvOf(MakeEnv2aB(RegistryAfter2a), NumEnvs)
      [] opt = "2b-A" -> VecEnvOf(MakeEnv2b, NumEnvs)
      [] opt = "2b-C" -> VecEnvOf(MakeEnv2bC, NumEnvs)

\* `env` as Step 2a and Step 2b build it.
SingleEnv(step) ==
    CASE step = "2a" -> GymMake(RegistryAfter2a, CustomId)
      [] step = "2b" -> TimeLimit(NewOME, MaxEpisodeSteps)

(* -------------------------- the notebook's state ----------------------- *)

VARIABLES
    doc,        \* the run (an element of Docs; "": no notebook is run)
    pcCell,     \* the cell being executed
    pcStmt,     \* the statement of it to execute next
    ns,         \* the kernel's namespace: name -> value
    registry,   \* the gym registry
    log,        \* the statements completed so far, in order
    status,     \* "running", "raised" (an exception left a cell) or "done"
    error,      \* the exception last raised ("none": none)
    runs        \* the cells the user has run one by one so far

nbVars == <<doc, pcCell, pcStmt, ns, registry, log, status, error, runs>>

vars == <<cfg, om, elapsed, call, ret, lastObs, epSteps,
          om2, call2, ret2, lastObs2, sameSeed,
          doc, pcCell, pcStmt, ns, registry, log, status, error, runs>>

\* A value of the namespace: the statement that bound it (site = 100 * cell
\* + statement; 0: unbound) and its cell, the call that made it, its integer
\* argument, and for an environment its configuration, for a vectorized
\* environment its sub-environments.
Val(site, cell, kind, num, env, subs) ==
    [site |-> site, cell |-> cell, kind |-> kind, num |-> num, env |-> env,
     subs |-> subs]

Unbound == Val(0, "", "unbound", 0, NoEnv, <<>>)

AllStmts ==
    UNION {UNION {{Cells(d)[c].stmts[i] : i \in 1..Len(Cells(d)[c].stmts)} :
                  c \in 1..Len(Cells(d))} : d \in Docs}

AllNames == UNION {s.binds \cup {r[2] : r \in s.reads} : s \in AllStmts}

\* The statement to execute next.
Cur == Cells(doc)[pcCell].stmts[pcStmt]

Site == 100 * pcCell + pcStmt

\* The name a statement reads in a role.
ReadAs(s, role) == (CHOOSE r \in s.reads : r[1] = role)[2]

\* The names a statement reads that are not bound: a NameError.
Missing(s) == {r \in s.reads : ns[r[2]].site = 0}

\* A statement that makes an environment from an id the registry lacks.
Unregistered(s) ==
    /\ s.op \in {"gym.make", "make_vec_env", "DummyVecEnv(gym.make)"}
    /\ ~Registered(registry, s.envid)

\* The value a statement binds its targets to.
ValOf(s) ==
    LET v == Val(Site, Cells(doc)[pcCell].name, s.op, s.num, NoEnv, <<>>)
    IN  CASE s.op = "gym.make" -> [v EXCEPT !.env = GymMake(registry, s.envid)]
          [] s.op = "make_vec_env" ->
                [v EXCEPT !.subs = MakeVecEnv(registry, s.envid, s.num)]
          [] s.op = "DummyVecEnv(gym.make)" ->
                [v EXCEPT !.subs = VecEnvOf(GymMake(registry, s.envid), s.num)]
          [] s.op = "ObservationMatchingEnv" -> [v EXCEPT !.env = NewOME]
          [] s.op = "TimeLimit" ->
                [v EXCEPT !.env = TimeLimit(ns[ReadAs(s, "env")].env, s.num)]
          [] s.op = "def" -> [v EXCEPT !.env = MakeEnv2b]
          [] s.op = "DummyVecEnv" ->
                [v EXCEPT !.subs = VecEnvOf(ns[ReadAs(s, "factory")].env, s.num)]
          [] OTHER -> v

\* The registry after a statement.
RegistryOf(s) ==
    CASE s.op = "gym.register" ->
            Register(registry, s.envid, "ObservationMatchingEnv",
                     ns["ObservationMatchingEnv"].num, s.num)
      [] s.op = "import" /\ "seals" \in s.binds -> registry \cup SealsRegistry
      [] OTHER -> registry

\* The record of a completed statement: where it stands, what it called,
\* and for each name it read the role, the binding site and the integer
\* value of what it read.
LogEntry(s) ==
    [cell |-> Cells(doc)[pcCell].name, idx |-> pcStmt, site |-> Site, op |-> s.op,
     stage |-> s.stage, num |-> s.num, envid |-> s.envid, kw |-> s.kw,
     uses |-> {<<r[1], ns[r[2]].site, ns[r[2]].num>> : r \in s.reads}]

\* Control moves to the next statement, the next cell, or the end.  A run
\* of a whole document goes on with the next cell; a cell the user ran by
\* itself ends the execution.
Proceed ==
    IF pcStmt < Len(Cells(doc)[pcCell].stmts)
    THEN /\ pcStmt' = pcStmt + 1
         /\ UNCHANGED <<pcCell, status>>
    ELSE IF pcCell < Len(Cells(doc)) /\ doc \in Docs
         THEN /\ pcCell' = pcCell + 1
              /\ pcStmt' = 1
              /\ UNCHANGED status
         ELSE /\ status' = "done"
              /\ UNCHANGED <<pcCell, pcStmt>>

\* A statement completes.
Execute ==
    /\ status = "running"
    /\ Missing(Cur) = {}
    /\ ~Unregistered(Cur)
    /\ ns' = [n \in AllNames |-> IF n \in Cur.binds THEN ValOf(Cur) ELSE ns[n]]
    /\ registry' = RegistryOf(Cur)
    /\ log' = Append(log, LogEntry(Cur))
    /\ Proceed
    /\ UNCHANGED <<doc, error, runs>>

\* A statement raises: a NameError for a name that is not bound, or whatever
\* the external call raises.  Outside a try block the exception leaves the
\* cell and the run stops there; inside one the handler catches it and the
\* cell goes on.
Raise ==
    /\ status = "running"
    /\ (Missing(Cur) # {} \/ Unregistered(Cur) \/ Cur.ext)
    /\ error' = IF Missing(Cur) # {} THEN "NameError"
                ELSE IF Unregistered(Cur) THEN "UnregisteredEnv"
                ELSE "External"
    /\ IF Cur.try
       THEN Proceed
       ELSE /\ status' = "raised"
            /\ UNCHANGED <<pcCell, pcStmt>>
    /\ UNCHANGED <<doc, ns, registry, log, runs>>

\* The user runs one cell of the notebook, whichever they pick, once the
\* kernel is not busy: the namespace and the registry are what the earlier
\* executions left.
RunCell(c) ==
    /\ status \in {"idle", "done", "raised"}
    /\ runs < MaxRuns
    /\ runs' = runs + 1
    /\ pcCell' = c
    /\ pcStmt' = 1
    /\ status' = "running"
    /\ UNCHANGED <<doc, ns, registry, log, error>>

(* --------------------------- specifications ---------------------------- *)

\* No environment is in use.
EnvIdle == EnvInit(NoEnv, 0)

\* No notebook is run.
NotebookIdle ==
    /\ doc = ""
    /\ pcCell = 0
    /\ pcStmt = 0
    /\ ns = [n \in AllNames |-> Unbound]
    /\ registry = BuiltinRegistry
    /\ log = <<>>
    /\ status = "idle"
    /\ error = "none"
    /\ runs = 0

\* A fresh kernel runs one of the documents from its first cell.
Init ==
    /\ doc \in Docs
    /\ pcCell = 1
    /\ pcStmt = 1
    /\ ns = [n \in AllNames |-> Unbound]
    /\ registry = BuiltinRegistry
    /\ log = <<>>
    /\ status = "running"
    /\ error = "none"
    /\ runs = 0
    /\ EnvIdle
    /\ PairIdle

Next ==
    \/ Execute /\ UNCHANGED <<envVars, pairVars>>
    \/ Raise /\ UNCHANGED <<envVars, pairVars>>

Spec == Init /\ [][Next]_vars

\* An ObservationMatchingEnv(num_options) used directly.
InitOME ==
    /\ \E n \in 1..MaxOptions, s \in Seeds :
           EnvInit(EnvCfg("ObservationMatchingEnv", n, 0, FALSE), s)
    /\ PairIdle
    /\ NotebookIdle

\* The arguments of seed(): None or a seed.
SeedArgs == {-1} \cup Seeds

NextOME ==
    \/ \E arg \in SeedArgs : Seed(arg) /\ UNCHANGED <<nbVars, pairVars>>
    \/ Reset /\ UNCHANGED <<nbVars, pairVars>>
    \/ \E a \in Actions(om.num_options) : Step(a) /\ UNCHANGED <<nbVars, pairVars>>

SpecOME == InitOME /\ [][NextOME]_vars

\* The environments Step 2 builds: `env`, and the sub-environments of `venv`
\* under every option.
EpisodeEnvs ==
    {SingleEnv(s) : s \in {"2a", "2b"}}
        \cup UNION {{VenvOption(o)[i] : i \in 1..NumEnvs} : o \in VenvOptions}

\* The actions a policy is modelled to take in an episode: the corners of
\* the action space.
PolicyActions(n) == {Array("float32", [i \in 1..n |-> k]) : k \in {0, Grid}}

InitEpisode ==
    /\ \E c \in EpisodeEnvs, s \in Seeds : EnvInit(c, s)
    /\ PairIdle
    /\ NotebookIdle

NextEpisode ==
    \/ \E arg \in SeedArgs : Seed(arg) /\ UNCHANGED <<nbVars, pairVars>>
    \/ Reset /\ UNCHANGED <<nbVars, pairVars>>
    \/ \E a \in PolicyActions(om.num_options) : Step(a) /\ UNCHANGED <<nbVars, pairVars>>

SpecEpisode == InitEpisode /\ [][NextEpisode]_vars

\* Two ObservationMatchingEnv() objects driven by the same sequence of
\* calls, each step with an action for either, taken from the corners of
\* the action space.
InitPair ==
    /\ \E s1, s2 \in Seeds :
           /\ EnvInit(NewOME, s1)
           /\ om2 = OMEInit(NewOME.opts, s2)
    /\ call2 = Call("init", NoArray, -1, NoArray)
    /\ ret2 = NoRet
    /\ lastObs2 = NoArray
    /\ sameSeed = FALSE
    /\ NotebookIdle

NextPair ==
    \/ \E arg \in SeedArgs : PairSeed(arg) /\ UNCHANGED nbVars
    \/ PairReset /\ UNCHANGED nbVars
    \/ \E a, b \in PolicyActions(DefaultNumOptions) : PairStep(a, b) /\ UNCHANGED nbVars

SpecPair == InitPair /\ [][NextPair]_vars

\* A fresh kernel in which the user runs the cells of Steps 1 and 2 of the
\* custom-environment tutorial one by one, in any order, any number of times.
InitCells ==
    /\ doc = "custom_cells"
    /\ pcCell = 0
    /\ pcStmt = 0
    /\ ns = [n \in AllNames |-> Unbound]
    /\ registry = BuiltinRegistry
    /\ log = <<>>
    /\ status = "idle"
    /\ error = "none"
    /\ runs = 0
    /\ EnvIdle
    /\ PairIdle

NextCells ==
    \/ \E c \in 1..Len(Cells(doc)) : RunCell(c) /\ UNCHANGED <<envVars, pairVars>>
    \/ Execute /\ UNCHANGED <<envVars, pairVars>>
    \/ Raise /\ UNCHANGED <<envVars, pairVars>>

SpecCells == InitCells /\ [][NextCells]_vars

(* ------------------------------ properties ----------------------------- *)

\* The positions of the log.
Logged == 1..Len(log)

\* What a logged statement read in a role: <<role, binding site, integer value>>.
Use(e, role) == CHOOSE u \in e.uses : u[1] = role

\* The order of the pipeline steps as the overview gives it.
FlowRank(stage) ==
    CASE stage = "env" -> 1
      [] stage = "expert" -> 2
      [] stage = "demos" -> 3
      [] stage = "learner" -> 4
      [] stage = "train" -> 5

\* The order in the SQIL tutorial: the expert data and the demonstrations
\* come before the environment.
SqilRank(stage) ==
    CASE stage = "expert" -> 1
      [] stage = "demos" -> 2
      [] stage = "env" -> 3
      [] stage = "learner" -> 4
      [] stage = "train" -> 5

Ordered == {"env", "expert", "demos", "learner", "train"}

\* A completed run has carried out every step, and its last step is an
\* evaluation that follows the train call.
EndsWithEvaluation ==
    status = "done" =>
        /\ \A st \in Ordered : \E i \in Logged : log[i].stage = st
        /\ \E t, e \in Logged :
               /\ t < e
               /\ log[t].stage = "train"
               /\ log[e].stage = "eval"
               /\ \A k \in Logged : k > e => log[k].stage = "none"

\* C1 as stated: in every run the steps come in the order environment,
\* expert, demonstrations, learner, train call, and the final evaluation
\* comes after the train call.
C1_FlowOrderEverywhere ==
    /\ \A i, j \in Logged :
           (i < j /\ log[i].stage \in Ordered /\ log[j].stage \in Ordered)
               => FlowRank(log[i].stage) <= FlowRank(log[j].stage)
    /\ EndsWithEvaluation

\* C1 as amended: the custom-environment tutorial, the AIRL tutorial and the
\* AIRL doc example follow the order environment, expert, demonstrations,
\* learner, train call, final evaluation; the SQIL tutorial loads the expert
\* data and obtains the demonstrations first and constructs the environment
\* after them, and from there on follows the same order.
C1_FlowOrder ==
    /\ \A i, j \in Logged :
           (i < j /\ log[i].stage \in Ordered /\ log[j].stage \in Ordered)
               => IF doc = "sqil"
                  THEN SqilRank(log[i].stage) <= SqilRank(log[j].stage)
                  ELSE FlowRank(log[i].stage) <= FlowRank(log[j].stage)
    /\ EndsWithEvaluation

\* The SQIL tutorial has run to its end.
C1_Witness == doc = "sqil" /\ status = "done" /\ log[Len(log)].op = "print"

\* C2: in the custom-environment tutorial, through Step 2a or through Step
\* 2b, every name a statement reads is bound when the statement is reached:
\* no cell raises a NameError, a run stops only where an external call
\* raises, and a run that completes has printed the reward after training
\* last.
C2_NamesBound ==
    doc \in CustomDocs =>
        /\ status = "running" => Missing(Cur) = {} /\ ~Unregistered(Cur)
        /\ status = "raised" => error = "External"
        /\ status = "done" =>
               /\ log[Len(log)].op = "print"
               /\ log[Len(log)].kw = {<<"text", "Reward after training">>}

\* The run through Step 2b has printed the reward after training.
C2_Witness ==
    /\ doc = "custom2b"
    /\ status = "done"
    /\ \A i \in Logged : log[i].cell # "step2a"
    /\ log[Len(log)].kw = {<<"text", "Reward after training">>}

\* C3: once Step 2a or Step 2b has bound `venv`, `env` is one
\* ObservationMatchingEnv with num_options = 2 under a 500-step TimeLimit
\* and `venv` has exactly 4 sub-environments, each an ObservationMatchingEnv
\* under a 500-step TimeLimit inside a RolloutInfoWrapper.
C3_SameConfiguration ==
    (doc \in CustomDocs /\ ns["venv"].site # 0) =>
        /\ ns["env"].env = EnvCfg("ObservationMatchingEnv", 2, 500, FALSE)
        /\ Len(ns["venv"].subs) = 4
        /\ \A i \in 1..Len(ns["venv"].subs) :
               ns["venv"].subs[i] = EnvCfg("ObservationMatchingEnv", 2, 500, TRUE)

\* Step 2b has bound `env` and `venv`.
C3_Witness ==
    /\ doc = "custom2b"
    /\ ns["venv"].cell = "step2b"
    /\ ns["env"].cell = "step2b"
    /\ Len(ns["venv"].subs) = 4

\* The environments the executed cells of Step 2 build.
TutorialEnvs ==
    {SingleEnv(s) : s \in {"2a", "2b"}}
        \cup UNION {{VenvOption(o)[i] : i \in 1..NumEnvs} : o \in ExecutedOptions}

\* C4: the class alone never reports done; under the tutorial's TimeLimit a
\* step reports done exactly when it is step 500 (or later) since the last
\* reset.
C4_FixedLength ==
    ret.kind = "step" =>
        /\ cfg.limit = 0 => ~ret.done
        /\ cfg \in TutorialEnvs => (ret.done <=> epSteps >= 500)

\* Step 500 of an episode of one of the tutorial's environments.
C4_Witness ==
    /\ cfg \in TutorialEnvs
    /\ ret.kind = "step"
    /\ ret.done
    /\ epSteps = 500
    /\ elapsed = 500

\* C5 as stated: every observation reset and step return is an element of
\* the declared observation space (shape, bounds, element type).
C5_InObservationSpace ==
    ret.kind \in {"obs", "step"} =>
        Contains(ObservationSpace(om.num_options), ret.obs)

\* The evaluations of the learner logged so far.
Evals == {i \in Logged : log[i].op = "evaluate_policy"}

\* C6: in both AIRL runs every evaluation comes right after env.seed(SEED)
\* with SEED = 42 on the environment it evaluates in, evaluates the object
\* passed to AIRL as gen_algo in the environment passed as venv, and runs
\* 100 episodes; between two evaluations there is only
\* airl_trainer.train(20000) and the reseed; a completed run has evaluated
\* exactly twice.
C6_SameConditions ==
    doc \in AirlDocs =>
        /\ \A i \in Evals :
               /\ i > 1
               /\ log[i - 1].op = "seed"
               /\ Use(log[i - 1], "seed")[3] = 42
               /\ Use(log[i - 1], "env")[2] = Use(log[i], "env")[2]
               /\ log[i].num = 100
               /\ \E a \in 1..(i - 1) :
                      /\ log[a].op = "AIRL"
                      /\ Use(log[a], "gen_algo")[2] = Use(log[i], "policy")[2]
                      /\ Use(log[a], "env")[2] = Use(log[i], "env")[2]
        /\ \A i, j \in Evals :
               i < j =>
                   /\ j = i + 3
                   /\ log[i + 1].op = "train"
                   /\ log[i + 1].num = 20000
                   /\ \E a \in 1..i :
                          /\ log[a].op = "AIRL"
                          /\ Use(log[i + 1], "trainer")[2] = log[a].site
        /\ status = "done" => Cardinality(Evals) = 2

\* The doc example has evaluated the learner after training.
C6_Witness ==
    /\ doc = "airl_doc"
    /\ Cardinality(Evals) = 2
    /\ status = "done"

\* C7 as stated: every environment the code of the SQIL tutorial names (the
\* environment of the dataset, the id passed to gym.make) is the environment
\* its text names.
C7_OneEnvironment ==
    doc = "sqil" =>
        \A i \in Logged : log[i].envid # NoId => log[i].envid = SqilTextEnvId

\* C8: an exception leaves its cell: the step that raises it ends the run at
\* that statement, binds nothing and completes nothing, and from then on
\* nothing changes.
C8_Uncaught ==
    /\ [][(error = "none" /\ error' # "none") =>
              /\ status' = "raised"
              /\ ns' = ns
              /\ log' = log
              /\ pcCell' = pcCell
              /\ pcStmt' = pcStmt]_vars
    /\ [][status = "raised" => UNCHANGED vars]_vars

\* The second evaluation of the expert has raised: `reward` keeps the value
\* the first evaluation bound, and the rest of the cell has not run.
C8_Witness ==
    /\ doc = "custom2b"
    /\ status = "raised"
    /\ error = "External"
    /\ Cells(doc)[pcCell].name = "expert"
    /\ Cur.op = "evaluate_policy"
    /\ ns["reward"].site = 100 * pcCell + 3
    /\ pcStmt = 6
    /\ log[Len(log)].op = "learn"

\* C9: the reward of a step is minus the sum of the distances between the
\* action and the observation the caller held, over Grid * num_options; it
\* lies in [-1, 0] and is 0 exactly when the action equals that observation.
C9_Reward ==
    ret.kind = "step" =>
        LET n == om.num_options
            dist == [i \in 1..n |-> Abs(call.seen.vals[i] - call.action.vals[i])]
        IN  /\ call.seen.shape = n
            /\ ret.reward = - SumSeq(dist)
            /\ - (Grid * n) <= ret.reward
            /\ ret.reward <= 0
            /\ ret.reward = 0 <=> call.action.vals = call.seen.vals

\* A step whose action matches the observation held, and not the new state.
C9_Witness ==
    /\ ret.kind = "step"
    /\ call.action.vals = call.seen.vals
    /\ ret.obs.vals # call.seen.vals
    /\ ret.reward = 0

\* C10 as stated: in a sub-environment of `venv`, under every option, an
\* episode has ended by its step 500.
C10_EpisodesEnd ==
    (/\ cfg \in UNION {{VenvOption(o)[i] : i \in 1..NumEnvs} : o \in VenvOptions}
     /\ ret.kind = "step"
     /\ epSteps >= 500) => ret.done

\* C12: the constructor sets num_options and the generator and leaves
\* `state` unset until the first reset; a step raises exactly when no reset
\* has returned an observation before it, and succeeds otherwise.
C12_StepNeedsReset ==
    /\ call.op = "init" =>
           /\ om.state = NoArray
           /\ om.num_options = cfg.opts
           /\ om.np_random.seed \in Seeds
    /\ lastObs = NoArray => om.state = NoArray
    /\ call.op = "step" => (ret.kind = "error" <=> call.seen = NoArray)
    /\ (call.op = "step" /\ call.seen # NoArray) =>
           (ret.kind = "step" /\ ret.obs.shape = om.num_options)

\* A step made before the first reset, after a seed call, has raised.
C12_Witness ==
    /\ call.op = "step"
    /\ ret.kind = "error"
    /\ om.state = NoArray
    /\ om.np_random.pos = 0

\* C11: two environments given the same seed and driven by the same
\* sequence of reset and step calls return the same observations whatever
\* actions either is passed: the generators stay equal, from the first
\* observation on the objects are equal, and equal actions on the same
\* observation earn equal rewards whatever the earlier actions were.
C11_ObservationsIgnoreActions ==
    sameSeed =>
        /\ ret2.kind = ret.kind
        /\ ret2.obs = ret.obs
        /\ om2.np_random = om.np_random
        /\ ret.kind \in {"obs", "step"} => (om2 = om /\ lastObs2 = lastObs)
        /\ (/\ call.op = "step"
            /\ call2.action = call.action
            /\ call2.seen = call.seen) => ret2.reward = ret.reward

\* Two environments with the same seed have been stepped with different
\* actions: the rewards differ and the observations agree.
C11_Witness ==
    /\ sameSeed
    /\ call.op = "step"
    /\ ret.kind = "step"
    /\ call2.action # call.action
    /\ ret2.reward # ret.reward
    /\ ret2.obs = ret.obs
    /\ om.np_random.pos # om.num_options % Period

\* The cell whose execution is going on or ended last.
LastCell == Cells(doc)[pcCell].name

\* The cells of Step 2 that bind `env` and `venv`.
Step2Cells == {"step2a", "step2b"}

\* The positions of the log written by the cells of Step 2.
Step2Logged == {i \in Logged : log[i].cell \in Step2Cells}

\* The last statement a cell of Step 2 completed.
LastStep2 == log[CHOOSE i \in Step2Logged : \A j \in Step2Logged : j <= i]

\* C13: whenever an execution of the Step 2a cell or of the Step 2b cell has
\* completed, whatever cells were run before it and in whatever order, `env`
\* and `venv` are both bound by that cell; and this stays so while other
\* cells are run, until a cell of Step 2 is run again.
C13_EnvAndVenvFromLastCell ==
    /\ (status = "done" /\ pcCell > 0 /\ LastCell \in Step2Cells) =>
           /\ ns["env"].cell = LastCell
           /\ ns["venv"].cell = LastCell
           /\ ns["env"].site \div 100 = pcCell
           /\ ns["venv"].site \div 100 = pcCell
    /\ (/\ doc = "custom_cells"
        /\ Step2Logged # {}
        /\ LastStep2.idx = Len(Cells(doc)[LastStep2.site \div 100].stmts)
        /\ ~(status = "running" /\ LastCell \in Step2Cells)) =>
           /\ ns["env"].cell = LastStep2.cell
           /\ ns["venv"].cell = LastStep2.cell

\* The Step 2a cell has completed in a kernel in which the Step 2b cell had
\* completed before.
C13_Witness ==
    /\ doc = "custom_cells"
    /\ status = "done"
    /\ LastCell = "step2a"
    /\ \E i \in Logged : log[i].cell = "step2b" /\ log[i].op = "DummyVecEnv"
    /\ ns["env"].cell = "step2a"

\* The statements of a document in order, cell after cell.
RECURSIVE Flatten(_)
Flatten(cells) ==
    IF cells = <<>> THEN <<>> ELSE Head(cells).stmts \o Flatten(Tail(cells))

\* A statement that configures the pipeline: one that carries out a stage,
\* sets a constant or seeds the environment.
Configures(e) == e.stage # "none" \/ e.op \in {"const", "seed"}

\* What a statement configures: the call, its stage, its integer argument,
\* the environment id it names, its other literal arguments, and the roles
\* in which it reads names.
ConfigOf(op, stage, num, envid, kw, roles) ==
    [op |-> op, stage |-> stage, num |-> num, envid |-> envid, kw |-> kw,
     roles |-> roles]

\* The configuration a document writes down.
Written(d) ==
    LET ss == SelectSeq(Flatten(Cells(d)), Configures)
    IN  [i \in 1..Len(ss) |->
            ConfigOf(ss[i].op, ss[i].stage, ss[i].num, ss[i].envid, ss[i].kw,
                     {r[1] : r \in ss[i].reads})]

\* The configuration the run has carried out.
Ran ==
    LET es == SelectSeq(log, Configures)
    IN  [i \in 1..Len(es) |->
            ConfigOf(es[i].op, es[i].stage, es[i].num, es[i].envid, es[i].kw,
                     {u[1] : u \in es[i].uses})]

\* The other of the two AIRL documents.
OtherAirl(d) == IF d = "airl_nb" THEN "airl_doc" ELSE "airl_nb"

\* The arguments only the notebook passes, by the call that receives them.
NotebookOnly(op) ==
    CASE op = "PPO" -> {<<"ent_coef", "0.0">>}
      [] op = "rollout.rollout" -> {<<"min_timesteps", "None">>}
      [] OTHER -> {}

\* Two statements that agree except for what only the notebook passes.
AgreeButFor(nb, ex) ==
    /\ [nb EXCEPT !.kw = {}] = [ex EXCEPT !.kw = {}]
    /\ ex.kw \subseteq nb.kw
    /\ nb.kw \ ex.kw = NotebookOnly(nb.op)

====
